---- MODULE Spec2Model ----
(***************************************************************************)
(* FieldFlow ESG reporting front-end.                                      *)
(*                                                                         *)
(* The company page (src/src/app/for-companies/page.tsx) exists in two     *)
(* revisions inside the same file: the inline revision (lines 1-695) and   *)
(* the hook-based revision (lines 697-1291).  The variable "version"       *)
(* selects the revision (1 = inline, 2 = hook-based); it is fixed in Init. *)
(* The investor page is src/src/app/for-investors/page.tsx.                *)
(*                                                                         *)
(* Hex strings (addresses, topics, bytes32 CIDs) are sequences of hex      *)
(* digit characters; the constant "0x" prefix is left out.                 *)
(***************************************************************************)
EXTENDS Integers, Sequences, FiniteSets, TLC

(***************************************************************************)
(* Bounds of the model                                                     *)
(***************************************************************************)
AddrDigits == 2        \* hex digits of an address
MaxBatches == 2        \* onEvents deliveries per call of waitForMatchingEvent
MaxBatchLen == 2       \* logs per delivered batch
MaxLate == 1           \* callbacks already in flight when unwatch() is called
MaxSubmissions == 1    \* runs of handleSubmit that reach the send loop
MaxFetches == 2        \* calls of fetchHistoricalData in flight

TopicDigits == AddrDigits + 2   \* hex digits of a topic / bytes32 word

(***************************************************************************)
(* Hex strings                                                             *)
(***************************************************************************)
\* A hex string of len digits: zeros followed by tail.
MkHex(len, tail) ==
    [i \in 1..len |-> IF i > len - Len(tail) THEN tail[i - (len - Len(tail))] ELSE "0"]

\* String.prototype.toLowerCase on one character
ToLowerChar(c) ==
    CASE c = "A" -> "a"
      [] c = "B" -> "b"
      [] OTHER -> c

\* Faulty variant: no case normalisation
toLowerCaseIdentity(s) == s

\* String.prototype.toLowerCase
toLowerCase(s) == [i \in DOMAIN s |-> ToLowerChar(s[i])]

\* ethers.utils.hexZeroPad: left-pad with zeros to the given width
hexZeroPad(value, length) ==
    [i \in 1..length |->
        IF i <= length - Len(value) THEN "0" ELSE value[i - (length - Len(value))]]

\* The number a hex digit stands for (what the chain stores; case-free)
DigitValue(c) ==
    CASE c = "0" -> 0
      [] c = "1" -> 1
      [] c \in {"a", "A"} -> 10
      [] c \in {"b", "B"} -> 11

RECURSIVE HexValue(_)
\* The number a hex string stands for
HexValue(s) ==
    IF s = <<>> THEN 0
    ELSE 16 * HexValue(SubSeq(s, 1, Len(s) - 1)) + DigitValue(s[Len(s)])

\* The two ways of writing a hex digit
CaseForms(c) ==
    CASE c \in {"a", "A"} -> {"a", "A"}
      [] c \in {"b", "B"} -> {"b", "B"}
      [] OTHER -> {c}

RECURSIVE Casings(_)
\* All casings of a hex string
Casings(s) ==
    IF s = <<>> THEN {<<>>}
    ELSE {Append(t, c) : t \in Casings(SubSeq(s, 1, Len(s) - 1)), c \in CaseForms(s[Len(s)])}

\* The string with the case of every letter inverted
SwapCase(s) == [i \in DOMAIN s |-> CHOOSE c \in CaseForms(s[i]) : CaseForms(s[i]) \subseteq {c, s[i]} /\ (c # s[i] \/ CaseForms(s[i]) = {c})]

(***************************************************************************)
(* Program constants                                                       *)
(***************************************************************************)
DefaultTimeoutMs == 90000
TickMs == DefaultTimeoutMs               \* granularity of time in the model
GhgKpiTypeId == 1                        \* kpiIdToNumericIdMap
ZeroCid == MkHex(TopicDigits, <<>>)      \* defaultMetadataCid
MinYear == 1900
MaxYear == 2200

NoAddress == <<>>                        \* null / undefined / "" address
WalletA == MkHex(AddrDigits, <<"a", "B">>)
WalletB == MkHex(AddrDigits, <<"b", "1">>)
Accounts == {WalletA, WalletB}       \* the accounts of the connected wallet
CidX == MkHex(TopicDigits, <<"A", "b", "1">>)

None == [shape |-> "none"]

(***************************************************************************)
(* State                                                                   *)
(***************************************************************************)
VARIABLES
    version,               \* 1 = inline revision, 2 = hook-based revision
    abiHasEvent,           \* the ABI JSON holds the KpiVersionSubmitted event
    contract,              \* the contract instance is defined
    userAddress,           \* React state userAddress (NoAddress = null)
    selectedReportingYear, \* React state selectedReportingYear
    formData,              \* React state formData.ghgEmission
    submitting,            \* React state submitting
    submissionStatus,      \* React state submissionStatus
    hsPc,                  \* position of the running handleSubmit
    hsUser,                \* userAddress as captured by the running handler
    txPayloads,            \* txPayloads of the running handler
    hsI,                   \* loop index i of the running handler (1-based)
    sent,                  \* transactions handed to sendTransaction, in order
    waits,                 \* one record per call of waitForMatchingEvent
    submissions,           \* runs of handleSubmit that reached the send loop
    chain,                 \* investor page: what the contract has stored
    companyAddressInput,   \* the address input, as its comma-separated parts
    companyAddresses,      \* React state companyAddresses
    invalidAddresses,      \* React state invalidAddresses
    isClient,              \* React state isClient
    graphDirty,            \* the effect of KpiHistoryGraph is due
    fetches,               \* the calls of fetchHistoricalData in flight
    historyData,           \* React state historyData of the mounted graph
    loadingHistory,        \* React state loadingHistory
    historyError           \* React state historyError ("" = null)

investorVars == <<chain, companyAddressInput, companyAddresses, invalidAddresses,
                  isClient, graphDirty, fetches, historyData, loadingHistory,
                  historyError>>

companyVars == <<version, abiHasEvent, contract, userAddress, selectedReportingYear,
                 formData, submitting, submissionStatus, hsPc, hsUser, txPayloads,
                 hsI, sent, waits, submissions>>

vars == <<companyVars, investorVars>>

pageVars == <<userAddress, selectedReportingYear, formData, submitting,
              submissionStatus, hsPc, hsUser, txPayloads, hsI, sent, submissions,
              investorVars>>

(***************************************************************************)
(* Event logs                                                              *)
(*                                                                         *)
(* A log as the watcher hands it to onEvents.  decodable = FALSE: decoding *)
(* throws.  missing: the fields that are undefined after decoding.  In     *)
(* revision 1 kpiOwner is the decoded address, in revision 2 it is         *)
(* topics[1], the address padded to 32 bytes.  The integers are the values *)
(* the ABI decoder returns.                                                *)
(***************************************************************************)
Log(owner, k, y, v, cid) ==
    [decodable |-> TRUE, missing |-> {}, kpiOwner |-> owner, kpiTypeId |-> k,
     reportingYear |-> y, value |-> v, metadataCid |-> cid]

Undecodable(l) == [l EXCEPT !.decodable = FALSE]
Incomplete(l, f) == [l EXCEPT !.missing = {f}]

\* The owner field of the log the chain emits for a transaction of addr
EventOwner(v, addr) ==
    IF v = 1 THEN addr ELSE hexZeroPad(toLowerCase(addr), TopicDigits)

Expected(owner, k, y, v, cid) ==
    [owner |-> owner, kpiTypeId |-> k, reportingYear |-> y, value |-> v,
     metadataCid |-> cid]

\* The log denotes the expected tuple: the chain's notion of equality, on
\* the numbers the hex strings stand for.
SameTuple(l, exp) ==
    /\ l.decodable
    /\ l.missing = {}
    /\ l.kpiOwner # NoAddress
    /\ l.kpiTypeId = exp.kpiTypeId
    /\ l.reportingYear = exp.reportingYear
    /\ l.value = exp.value
    /\ HexValue(l.kpiOwner) = HexValue(exp.owner)
    /\ HexValue(l.metadataCid) = HexValue(exp.metadataCid)

\* Position of the first log of the batch that denotes the tuple, 0 if none
FirstSame(events, exp) ==
    IF \E k \in 1..Len(events) : SameTuple(events[k], exp)
    THEN CHOOSE k \in 1..Len(events) :
            /\ SameTuple(events[k], exp)
            /\ \A j \in 1..(k - 1) : ~SameTuple(events[j], exp)
    ELSE 0

(***************************************************************************)
(* waitForMatchingEvent                                                    *)
(***************************************************************************)
Error(msg) == [message |-> msg]
TimeoutMessage == "Timeout waiting for KpiVersionSubmitted event"
NoOwnerMessage == "Owner address is undefined. Cannot watch for matching event."
NoContractMessage == "Contract not initialized. Cannot watch events."
NoAbiEventMessage(v) ==
    IF v = 1
    THEN "KpiVersionSubmitted event definition not found in main ABI. Cannot watch events."
    ELSE "KpiVersionSubmitted event definition not found in ABI."

\* Faulty variant: a settled promise is settled again
SettleOverwrite(w, outcome, result) ==
    [w EXCEPT !.outcome = outcome, !.result = result]

\* resolve / reject of the promise: only the first call has an effect
Settle(w, outcome, result) ==
    IF w.outcome = "pending"
    THEN [w EXCEPT !.outcome = outcome, !.result = result]
    ELSE w

\* Faulty variant: the timer is cleared, the subscription is kept
cleanupNoUnwatch(w) == [w EXCEPT !.timerActive = FALSE]

\* Faulty variant: the subscription is removed, the timer is left running
cleanupNoClearTimeout(w) ==
    [w EXCEPT !.subActive = IF w.watching THEN FALSE ELSE @,
              !.unwatchCalls = IF w.watching THEN @ + 1 ELSE @]

\* cleanup(): clearTimeout(timeoutId); unwatch()
cleanup(w) ==
    [w EXCEPT !.timerActive = FALSE,
              !.subActive = IF w.watching THEN FALSE ELSE @,
              !.unwatchCalls = IF w.watching THEN @ + 1 ELSE @]

\* ownerMatch
ownerMatch(v, l, exp) ==
    IF v = 1
    THEN toLowerCase(l.kpiOwner) = toLowerCase(exp.owner)
    ELSE toLowerCase(l.kpiOwner)
            = toLowerCase(hexZeroPad(toLowerCase(exp.owner), TopicDigits))

kpiTypeMatch(l, exp) == l.kpiTypeId = exp.kpiTypeId
yearMatch(l, exp) == l.reportingYear = exp.reportingYear
valueMatch(l, exp) == l.value = exp.value
cidMatch(l, exp) == toLowerCase(l.metadataCid) = toLowerCase(exp.metadataCid)

\* Faulty variant: the value is not compared
allMatchNoValue(v, l, exp) ==
    /\ ownerMatch(v, l, exp)
    /\ kpiTypeMatch(l, exp)
    /\ yearMatch(l, exp)
    /\ cidMatch(l, exp)

\* ownerMatch && kpiTypeMatch && yearMatch && valueMatch && cidMatch
allMatch(v, l, exp) ==
    /\ ownerMatch(v, l, exp)
    /\ kpiTypeMatch(l, exp)
    /\ yearMatch(l, exp)
    /\ valueMatch(l, exp)
    /\ cidMatch(l, exp)

\* The "incomplete or empty" test on the decoded data
isIncomplete(v, l) ==
    \/ l.missing # {}
    \/ (v = 1 /\ l.kpiOwner = NoAddress)

RECURSIVE onEventsLoopNoReturn(_, _, _, _)
\* Faulty variant: the loop goes on after a match
onEventsLoopNoReturn(v, w, events, k) ==
    IF k > Len(events) THEN w
    ELSE LET l == events[k]
             w1 == [w EXCEPT !.lastExamined = @ + 1]
             w2 == [w1 EXCEPT !.lastSkipped = TRUE]
         IN  IF ~l.decodable THEN onEventsLoopNoReturn(v, w2, events, k + 1)
             ELSE IF isIncomplete(v, l) THEN onEventsLoopNoReturn(v, w2, events, k + 1)
             ELSE IF allMatch(v, l, w.expected)
                  THEN onEventsLoopNoReturn(v, Settle(cleanup(w1), "resolved", l), events, k + 1)
                  ELSE onEventsLoopNoReturn(v, w1, events, k + 1)

RECURSIVE onEventsLoopBreak(_, _, _, _)
\* Faulty variant: a malformed log ends the loop
onEventsLoopBreak(v, w, events, k) ==
    IF k > Len(events) THEN w
    ELSE LET l == events[k]
             w1 == [w EXCEPT !.lastExamined = @ + 1]
             w2 == [w1 EXCEPT !.lastSkipped = TRUE]
         IN  IF ~l.decodable THEN w2
             ELSE IF isIncomplete(v, l) THEN w2
             ELSE IF allMatch(v, l, w.expected)
                  THEN Settle(cleanup(w1), "resolved", l)
                  ELSE onEventsLoopBreak(v, w1, events, k + 1)

RECURSIVE onEventsLoop(_, _, _, _)
\* for (const event of events) { ... } of onEvents, from the k-th log on
onEventsLoop(v, w, events, k) ==
    IF k > Len(events) THEN w
    ELSE LET l == events[k]
             w1 == [w EXCEPT !.lastExamined = @ + 1]
             w2 == [w1 EXCEPT !.lastSkipped = TRUE]
         IN  IF ~l.decodable THEN onEventsLoop(v, w2, events, k + 1)
             ELSE IF isIncomplete(v, l) THEN onEventsLoop(v, w2, events, k + 1)
             ELSE IF allMatch(v, l, w.expected)
                  THEN Settle(cleanup(w1), "resolved", l)
                  ELSE onEventsLoop(v, w1, events, k + 1)

\* The precondition that rejects at once, or "" when the watch starts
waitPrecondition(v, hasContract, hasAbiEvent, ownerAddress) ==
    IF v = 1 /\ ownerAddress = NoAddress THEN NoOwnerMessage
    ELSE IF v = 2 /\ ~hasContract THEN NoContractMessage
    ELSE IF ~hasAbiEvent THEN NoAbiEventMessage(v)
    ELSE ""

\* Faulty variant: a shorter window
waitForMatchingEventShort(v, hasContract, hasAbiEvent, p, exp, timeoutMs) ==
    [payload |-> p, expected |-> exp, timeoutMs |-> 0,
     watching |-> waitPrecondition(v, hasContract, hasAbiEvent, exp.owner) = "",
     outcome |-> IF waitPrecondition(v, hasContract, hasAbiEvent, exp.owner) = ""
                 THEN "pending" ELSE "rejected",
     result |-> IF waitPrecondition(v, hasContract, hasAbiEvent, exp.owner) = ""
                THEN None
                ELSE Error(waitPrecondition(v, hasContract, hasAbiEvent, exp.owner)),
     timerActive |-> waitPrecondition(v, hasContract, hasAbiEvent, exp.owner) = "",
     subActive |-> waitPrecondition(v, hasContract, hasAbiEvent, exp.owner) = "",
     unwatchCalls |-> 0, elapsed |-> 0, batches |-> 0, late |-> 0,
     firstMatch |-> None, firstMatchPending |-> FALSE, lastLen |-> 0,
     lastExamined |-> 0, lastSkipped |-> FALSE, lastMatchPos |-> 0,
     sawError |-> FALSE,
     timerFired |-> FALSE]

\* The state of a call right after waitForMatchingEvent(...) returned its
\* promise: rejected at once, or pending with the timer set and the
\* subscription created.  p is the index of the payload at the call site.
\* batches, late, sawError and timerFired record what was delivered to the
\* call; firstMatch is the first delivered log that denotes the expected
\* tuple and firstMatchPending whether the promise was pending then; lastLen,
\* lastExamined, lastSkipped and lastMatchPos describe the last batch: its
\* length, the number of logs the loop looked at, whether it skipped one of
\* them as undecodable or incomplete, the position of its first log that
\* denotes the tuple.
waitForMatchingEvent(v, hasContract, hasAbiEvent, p, exp, timeoutMs) ==
    LET pre == waitPrecondition(v, hasContract, hasAbiEvent, exp.owner)
    IN  [payload |-> p, expected |-> exp, timeoutMs |-> timeoutMs,
         watching |-> pre = "",
         outcome |-> IF pre = "" THEN "pending" ELSE "rejected",
         result |-> IF pre = "" THEN None ELSE Error(pre),
         timerActive |-> pre = "",
         subActive |-> pre = "",
         unwatchCalls |-> 0, elapsed |-> 0, batches |-> 0, late |-> 0,
         firstMatch |-> None, firstMatchPending |-> FALSE, lastLen |-> 0,
         lastExamined |-> 0, lastSkipped |-> FALSE, lastMatchPos |-> 0,
         sawError |-> FALSE,
         timerFired |-> FALSE]

\* onEvents: (events) => { ... }
onEvents(v, w, events) ==
    LET pos == FirstSame(events, w.expected)
        w0 == [w EXCEPT !.batches = @ + 1,
                        !.late = IF w.subActive THEN @ ELSE @ + 1,
                        !.lastExamined = 0,
                        !.lastSkipped = FALSE,
                        !.lastLen = Len(events),
                        !.lastMatchPos = pos,
                        !.firstMatchPending =
                            IF w.firstMatch = None /\ pos # 0
                            THEN w.outcome = "pending" ELSE @,
                        !.firstMatch =
                            IF @ = None /\ pos # 0 THEN events[pos] ELSE @]
    IN  onEventsLoop(v, w0, events, 1)

\* Faulty variant: the promise is rejected, the timer and the subscription
\* are left as they are
onErrorNoCleanup(w, error) ==
    Settle([w EXCEPT !.sawError = TRUE,
                     !.late = IF w.subActive THEN @ ELSE @ + 1],
           "rejected", error)

\* onError: (error) => { cleanup(); reject(error); }
onError(w, error) ==
    Settle(cleanup([w EXCEPT !.sawError = TRUE,
                             !.late = IF w.subActive THEN @ ELSE @ + 1]),
           "rejected", error)

\* Faulty variant: the timer callback cleans up and leaves the promise alone
onTimeoutNoReject(w) == cleanup([w EXCEPT !.timerFired = TRUE])

\* The setTimeout callback: cleanup(); reject(new Error("Timeout ..."))
onTimeout(w) ==
    Settle(cleanup([w EXCEPT !.timerFired = TRUE]), "rejected", Error(TimeoutMessage))

\* The watcher may call back: the subscription is active, or a callback was
\* already in flight when unwatch() was called
CanDeliver(w) == w.watching /\ (w.subActive \/ w.late < MaxLate)

(***************************************************************************)
(* The watcher and the timer: the environment of a call                    *)
(***************************************************************************)
OtherWallet(addr) == IF HexValue(addr) = HexValue(WalletA) THEN WalletB ELSE WalletA
OtherCid(cid) == IF HexValue(cid) = HexValue(ZeroCid) THEN CidX ELSE ZeroCid

\* The logs that denote the expected tuple, written in the other letter case
MatchingLogs(v, exp, rich) ==
    LET owner == IF exp.owner = NoAddress THEN WalletA ELSE exp.owner
        own == Log(EventOwner(v, owner), exp.kpiTypeId, exp.reportingYear,
                   exp.value, exp.metadataCid)
    IN  IF rich
        THEN {[own EXCEPT !.kpiOwner = SwapCase(@), !.metadataCid = SwapCase(@)]}
        ELSE {[own EXCEPT !.kpiOwner = SwapCase(@)]}

\* The logs the watcher may deliver to a call: logs that denote the expected
\* tuple, logs that differ from it in one field, and malformed logs
LogUniverse(v, exp, rich) ==
    LET owner == IF exp.owner = NoAddress THEN WalletA ELSE exp.owner
        own == Log(EventOwner(v, owner), exp.kpiTypeId, exp.reportingYear,
                   exp.value, exp.metadataCid)
    IN  MatchingLogs(v, exp, rich)
        \cup {[own EXCEPT !.kpiOwner = EventOwner(v, OtherWallet(owner))]}
        \cup (IF rich
              THEN {[own EXCEPT !.reportingYear = @ - 1],
                    [own EXCEPT !.kpiTypeId = @ + 1],
                    [own EXCEPT !.value = @ + 1],
                    [own EXCEPT !.metadataCid = OtherCid(@)],
                    Undecodable(own),
                    Incomplete(own, "metadataCid")}
              ELSE {})

\* The batches of at most n logs of S
Batches(S, n) == UNION {[1..k -> S] : k \in 1..n}

SubscriptionErrors == {Error("rpc error")}

\* The watcher calls onEvents of call c
WatcherDelivers(c, rich) ==
    /\ c \in DOMAIN waits
    /\ CanDeliver(waits[c])
    /\ waits[c].batches < MaxBatches
    /\ \E events \in Batches(LogUniverse(version, waits[c].expected, rich),
                           IF rich THEN MaxBatchLen ELSE 1) :
          waits' = [waits EXCEPT ![c] = onEvents(version, @, events)]
    /\ UNCHANGED <<version, abiHasEvent, contract, pageVars>>

\* The watcher calls onError of call c
WatcherFails(c) ==
    /\ c \in DOMAIN waits
    /\ CanDeliver(waits[c])
    /\ ~waits[c].sawError
    /\ \E error \in SubscriptionErrors :
          waits' = [waits EXCEPT ![c] = onError(@, error)]
    /\ UNCHANGED <<version, abiHasEvent, contract, pageVars>>

\* Time passes while a timer is set
Tick ==
    /\ \E c \in DOMAIN waits : waits[c].timerActive /\ waits[c].elapsed < waits[c].timeoutMs
    /\ waits' = [c \in DOMAIN waits |->
                    IF waits[c].timerActive /\ waits[c].elapsed < waits[c].timeoutMs
                    THEN [waits[c] EXCEPT !.elapsed = @ + TickMs]
                    ELSE waits[c]]
    /\ UNCHANGED <<version, abiHasEvent, contract, pageVars>>

\* The timer of call c expires
TimerFires(c) ==
    /\ c \in DOMAIN waits
    /\ waits[c].timerActive
    /\ waits[c].elapsed >= waits[c].timeoutMs
    /\ waits' = [waits EXCEPT ![c] = onTimeout(@)]
    /\ UNCHANGED <<version, abiHasEvent, contract, pageVars>>

\* The investor page while the company page runs: not rendered
InvestorIdle ==
    /\ chain = "empty"
    /\ companyAddressInput = <<"">>
    /\ companyAddresses = <<>>
    /\ invalidAddresses = <<>>
    /\ isClient = FALSE
    /\ graphDirty = FALSE
    /\ fetches = <<>>
    /\ historyData = <<>>
    /\ loadingHistory = TRUE
    /\ historyError = ""

(***************************************************************************)
(* The company page: form, handleSubmit, submitKpiData                     *)
(***************************************************************************)
CurrentYear == 2024                       \* new Date().getFullYear()
YearInputs == {MinYear - 1, MaxYear, MaxYear + 1}
FieldInputs == {"", " ", "abc", "12.345"}
InitialFormData == [current |-> "", prior |-> ""]

NaN == [nan |-> TRUE, milli |-> 0]
Num(m) == [nan |-> FALSE, milli |-> m]

\* parseFloat on the inputs of the model; a number is held in thousandths
parseFloat(str) ==
    CASE str = "12.345" -> Num(12345)
      [] str = "7" -> Num(7000)
      [] str = "2.6" -> Num(2600)
      [] str = "0.006" -> Num(6)
      [] OTHER -> NaN

\* String.prototype.trim on the inputs of the model
trim(str) ==
    CASE str = " " -> ""
      [] str = " 0xA " -> "0xA"
      [] OTHER -> str

\* Faulty variant: the fraction of x * 100 is cut off
roundTimes100Floor(x) == x.milli \div 10

\* Math.round(x * 100), x in thousandths
roundTimes100(x) == (x.milli + 5) \div 10

\* Math.round(x), x in thousandths
round(x) == (x.milli + 500) \div 1000

Status(prefix, text) == [prefix |-> prefix, text |-> text]
NoStatus == Status("", "")

\* prepareContractCall({method: "submitKpiVersion", params: [...]})
prepareContractCall(k, y, v, cid) ==
    [method |-> "submitKpiVersion", params |-> <<k, y, v, cid>>]

\* txPayloads.push({prepared: prepareContractCall(...), kpiTypeId, ...})
TransactionPayload(k, y, v, cid) ==
    [prepared |-> prepareContractCall(k, y, v, cid),
     kpiTypeId |-> k, reportingYear |-> y, value |-> v, metadataCid |-> cid]

\* The payload of one form field in revision 1, <<>> when the field is skipped
fieldPayloads1(str, year) ==
    IF str # "" /\ trim(str) # "" /\ ~parseFloat(str).nan
    THEN <<TransactionPayload(GhgKpiTypeId, year, roundTimes100(parseFloat(str)),
                              ZeroCid)>>
    ELSE <<>>

\* The payload of one value in revision 2 (submitKpiData)
fieldPayloads2(val, year) ==
    IF ~val.nan
    THEN <<TransactionPayload(GhgKpiTypeId, year, round(val), ZeroCid)>>
    ELSE <<>>

\* Faulty variant: the payload of the prior year comes first
buildPayloadsPriorFirst(v, data, year) ==
    IF v = 1
    THEN fieldPayloads1(data.prior, year - 1) \o fieldPayloads1(data.current, year)
    ELSE fieldPayloads2(parseFloat(data.prior), year - 1)
            \o fieldPayloads2(parseFloat(data.current), year)

\* txPayloads as built from the form: current year first, then prior year
buildPayloads(v, data, year) ==
    IF v = 1
    THEN fieldPayloads1(data.current, year) \o fieldPayloads1(data.prior, year - 1)
    ELSE fieldPayloads2(parseFloat(data.current), year)
            \o fieldPayloads2(parseFloat(data.prior), year - 1)

\* Faulty variant: the year has no upper limit
submitPreconditionNoMaxYear(v, user, year, hasContract) ==
    IF user = NoAddress
    THEN (IF v = 1 THEN "Please connect your wallet first to submit data."
          ELSE "Please connect your wallet to submit data.")
    ELSE IF year = 0 \/ year < MinYear
         THEN (IF v = 1 THEN "Please enter a valid Reporting Year."
               ELSE "Please enter a valid reporting year.")
    ELSE IF v = 2 /\ ~hasContract
         THEN "Contract not loaded or initialized. Please wait."
    ELSE ""

\* The precondition of handleSubmit that fails first, "" if none does
submitPrecondition(v, user, year, hasContract) ==
    IF user = NoAddress
    THEN (IF v = 1 THEN "Please connect your wallet first to submit data."
          ELSE "Please connect your wallet to submit data.")
    ELSE IF year = 0 \/ year < MinYear \/ year > MaxYear
         THEN (IF v = 1 THEN "Please enter a valid Reporting Year."
               ELSE "Please enter a valid reporting year.")
    ELSE IF v = 2 /\ ~hasContract
         THEN "Contract not loaded or initialized. Please wait."
    ELSE ""

KnownIncludes(msg, part) ==
    \/ part = "timeout" /\ msg = TimeoutMessage
    \/ part = "replacement transaction underpriced"
          /\ msg = "replacement transaction underpriced"
    \/ part = "nonce too low" /\ msg = "nonce too low"

\* The message of the error the inner catch of the send loop throws
readableError(v, err) ==
    IF v = 2 THEN err.message
    ELSE IF KnownIncludes(err.message, "replacement transaction underpriced")
         THEN "Transaction failed: Replacement transaction underpriced."
    ELSE IF KnownIncludes(err.message, "nonce too low")
         THEN "Transaction failed: Nonce too low."
    ELSE IF KnownIncludes(err.message, "timeout")
         THEN "Event confirmation timed out."
    ELSE err.message

SendErrors == {Error("User rejected the request"), Error("nonce too low")}

\* The transaction handed to sendTransactionMutation for payload i.
\* status: how the promise of sendTransactionMutation ended; waited: the
\* handler called waitForMatchingEvent for the payload; connected: the state
\* userAddress of the page at that call
SentTx(run, i, payload) ==
    [run |-> run, index |-> i, prepared |-> payload.prepared, status |-> "pending",
     waited |-> FALSE, connected |-> NoAddress]

\* Faulty variant: the handler looks at the wait of the first payload
CurrentWaitFirst == waits[1]

\* The wait of the payload the handler is at
CurrentWait == waits[Len(waits)]

\* The connect button changes the active account; the effect copies its
\* address into userAddress
AccountChanged ==
    /\ submissions < MaxSubmissions \/ hsPc # "idle"
    /\ \E addr \in Accounts \cup {NoAddress} :
          /\ addr # userAddress
          /\ userAddress' = addr
    /\ UNCHANGED <<version, abiHasEvent, contract, selectedReportingYear, formData,
                   submitting, submissionStatus, hsPc, hsUser, txPayloads, hsI,
                   sent, waits, submissions, investorVars>>

\* useEsgContract: the effect on mount creates the contract (revision 2)
ContractCreated ==
    /\ version = 2
    /\ ~contract
    /\ contract' = TRUE
    /\ UNCHANGED <<version, abiHasEvent, pageVars, waits>>

\* isSendingTransaction of useSendTransaction
isSendingTransaction == hsPc = "sending"

\* handleGenericFormDataChange through an input of the form
FormDataChange ==
    /\ ~(submitting \/ isSendingTransaction)
    /\ submissions < MaxSubmissions
    /\ \E field \in {"current", "prior"}, value \in FieldInputs :
          /\ formData[field] # value
          /\ formData' = [formData EXCEPT ![field] = value]
    /\ UNCHANGED <<version, abiHasEvent, contract, userAddress, selectedReportingYear,
                   submitting, submissionStatus, hsPc, hsUser, txPayloads, hsI,
                   sent, waits, submissions, investorVars>>

\* onChange of the reporting year input
ReportingYearChange ==
    /\ ~(submitting \/ isSendingTransaction)
    /\ submissions < MaxSubmissions
    /\ \E year \in YearInputs \cup {CurrentYear} :
          /\ year # selectedReportingYear
          /\ selectedReportingYear' = year
    /\ UNCHANGED <<version, abiHasEvent, contract, userAddress, formData,
                   submitting, submissionStatus, hsPc, hsUser, txPayloads, hsI,
                   sent, waits, submissions, investorVars>>

\* The loop body up to the await of sendTransactionMutation(payload.prepared)
SendPayload(i, payloads, run) ==
    /\ hsI' = i
    /\ sent' = Append(sent, SentTx(run, i, payloads[i]))
    /\ hsPc' = "sending"
    /\ submissionStatus' =
          IF version = 1 THEN Status("", "Sending transaction") ELSE submissionStatus

\* handleSubmit returns: its locals and the promises it awaited are gone
HandlerReturns ==
    /\ hsPc' = "idle"
    /\ hsUser' = NoAddress
    /\ txPayloads' = <<>>
    /\ hsI' = 0
    /\ waits' = <<>>

\* The end of the status text that is set after the last confirmation
SuccessText(v) ==
    IF v = 1 THEN "submitted successfully! Form has been cleared."
    ELSE "successfully submitted! Form cleared."

\* Faulty variant: the catch block resets the form
FailSubmissionClearsForm(msg) ==
    /\ submissionStatus' = Status("Error: ", msg)
    /\ submitting' = FALSE
    /\ formData' = InitialFormData
    /\ HandlerReturns

\* Faulty variant: no finally block, submitting stays set after an error
FailSubmissionKeepsSubmitting(msg) ==
    /\ submissionStatus' = Status("Error: ", msg)
    /\ UNCHANGED <<submitting, formData>>
    /\ HandlerReturns

\* The outer catch and finally of handleSubmit
FailSubmission(msg) ==
    /\ submissionStatus' = Status("Error: ", msg)
    /\ submitting' = FALSE
    /\ UNCHANGED formData
    /\ HandlerReturns

\* A click on the submit button: handleSubmit up to its first await
HandleSubmit ==
    /\ hsPc = "idle"
    /\ ~(submitting \/ isSendingTransaction)
    /\ submissions < MaxSubmissions
    /\ LET pre == submitPrecondition(version, userAddress, selectedReportingYear, contract)
           payloads == buildPayloads(version, formData, selectedReportingYear)
       IN  IF pre # ""
           THEN /\ submissionStatus' = Status("Error: ", pre)
                /\ UNCHANGED <<submitting, hsPc, hsUser, txPayloads, hsI, sent,
                               waits, submissions>>
           ELSE IF payloads = <<>>
           THEN /\ submissionStatus' =
                      Status("", IF version = 1 THEN "No new data entered to submit"
                                 ELSE "No data entered for submission.")
                /\ submitting' = FALSE
                /\ UNCHANGED <<hsPc, hsUser, txPayloads, hsI, sent, waits, submissions>>
           ELSE /\ submitting' = TRUE
                /\ hsUser' = userAddress
                /\ txPayloads' = payloads
                /\ submissions' = submissions + 1
                /\ waits' = <<>>
                /\ hsI' = 1
                /\ sent' = <<SentTx(submissions + 1, 1, payloads[1])>>
                /\ hsPc' = "sending"
                /\ submissionStatus' =
                      Status("", IF version = 1 THEN "Sending transaction"
                                 ELSE "Preparing data for submission...")
    /\ UNCHANGED <<version, abiHasEvent, contract, userAddress, selectedReportingYear,
                   formData, investorVars>>

\* waitForMatchingEvent(userAddress, payload.kpiTypeId, payload.reportingYear,
\* payload.value, payload.metadataCid) at the call site of the send loop
callWait(i) ==
    waitForMatchingEvent(version, contract, abiHasEvent, i,
        Expected(hsUser, txPayloads[i].kpiTypeId, txPayloads[i].reportingYear,
                 txPayloads[i].value, txPayloads[i].metadataCid),
        DefaultTimeoutMs)

\* Faulty variant: the event is awaited although the send failed
SendResolvesAfterFailure ==
    /\ hsPc = "sending"
    /\ sent' = [sent EXCEPT ![Len(sent)] =
                    [@ EXCEPT !.status = "rejected", !.waited = TRUE,
                              !.connected = userAddress]]
    /\ waits' = Append(waits, callWait(hsI))
    /\ hsPc' = "waiting"
    /\ UNCHANGED <<version, abiHasEvent, contract, userAddress, selectedReportingYear,
                   formData, submitting, submissionStatus, hsUser, txPayloads, hsI,
                   submissions, investorVars>>

\* sendTransactionMutation resolves: the handler calls waitForMatchingEvent
SendResolves ==
    /\ hsPc = "sending"
    /\ sent' = [sent EXCEPT ![Len(sent)] =
                    [@ EXCEPT !.status = "resolved", !.waited = TRUE,
                              !.connected = userAddress]]
    /\ waits' = Append(waits, callWait(hsI))
    /\ hsPc' = "waiting"
    /\ submissionStatus' =
          IF version = 1 THEN Status("", "Tx sent. Waiting for event...")
          ELSE submissionStatus
    /\ UNCHANGED <<version, abiHasEvent, contract, userAddress, selectedReportingYear,
                   formData, submitting, hsUser, txPayloads, hsI, submissions,
                   investorVars>>

\* sendTransactionMutation rejects
SendRejects ==
    /\ hsPc = "sending"
    /\ sent' = [sent EXCEPT ![Len(sent)].status = "rejected"]
    /\ \E err \in SendErrors : FailSubmission(readableError(version, err))
    /\ UNCHANGED <<version, abiHasEvent, contract, userAddress, selectedReportingYear,
                   submissions, investorVars>>

\* Faulty variant: the handler goes on without awaiting the confirmation
WaitSettledUnawaited ==
    /\ hsPc = "waiting"
    /\ IF CurrentWait.outcome = "rejected"
       THEN /\ FailSubmission(readableError(version, CurrentWait.result))
            /\ UNCHANGED sent
       ELSE IF hsI < Len(txPayloads)
       THEN /\ SendPayload(hsI + 1, txPayloads, submissions)
            /\ UNCHANGED <<formData, submitting, hsUser, txPayloads, waits>>
       ELSE /\ submissionStatus' = Status("", SuccessText(version))
            /\ formData' = InitialFormData
            /\ submitting' = FALSE
            /\ UNCHANGED sent
            /\ HandlerReturns
    /\ UNCHANGED <<version, abiHasEvent, contract, userAddress, selectedReportingYear,
                   submissions, investorVars>>

\* The promise of waitForMatchingEvent is settled: the handler goes on
WaitSettled ==
    /\ hsPc = "waiting"
    /\ CurrentWait.outcome # "pending"
    /\ IF CurrentWait.outcome = "rejected"
       THEN /\ FailSubmission(readableError(version, CurrentWait.result))
            /\ UNCHANGED sent
       ELSE IF hsI < Len(txPayloads)
       THEN /\ SendPayload(hsI + 1, txPayloads, submissions)
            /\ UNCHANGED <<formData, submitting, hsUser, txPayloads, waits>>
       ELSE /\ submissionStatus' = Status("", SuccessText(version))
            /\ formData' = InitialFormData
            /\ submitting' = FALSE
            /\ UNCHANGED sent
            /\ HandlerReturns
    /\ UNCHANGED <<version, abiHasEvent, contract, userAddress, selectedReportingYear,
                   submissions, investorVars>>

\* The watcher of a running submission calls back while it is subscribed
PageDelivers == \E c \in DOMAIN waits : waits[c].subActive /\ WatcherDelivers(c, FALSE)
PageWatcherFails == \E c \in DOMAIN waits : waits[c].subActive /\ WatcherFails(c)
PageTimerFires == \E c \in DOMAIN waits : TimerFires(c)

Init ==
    /\ version \in {1, 2}
    /\ abiHasEvent \in BOOLEAN
    /\ contract = (version = 1)
    /\ userAddress = NoAddress
    /\ selectedReportingYear = CurrentYear
    /\ formData = InitialFormData
    /\ submitting = FALSE
    /\ submissionStatus = NoStatus
    /\ hsPc = "idle"
    /\ hsUser = NoAddress
    /\ txPayloads = <<>>
    /\ hsI = 0
    /\ sent = <<>>
    /\ waits = <<>>
    /\ submissions = 0
    /\ InvestorIdle

Next ==
    \/ AccountChanged
    \/ ContractCreated
    \/ FormDataChange
    \/ ReportingYearChange
    \/ HandleSubmit
    \/ SendResolves
    \/ SendRejects
    \/ WaitSettled
    \/ PageDelivers
    \/ PageWatcherFails
    \/ Tick
    \/ PageTimerFires

Spec == Init /\ [][Next]_vars

\* The scheduling the runtime guarantees: time passes and an expired timer
\* runs its callback; a handler whose awaited promise is settled is resumed.
\* The wallet is assumed to settle every sendTransaction call.
FairSpec ==
    /\ Spec
    /\ WF_vars(Tick)
    /\ WF_vars(PageTimerFires)
    /\ WF_vars(WaitSettled)
    /\ WF_vars(SendResolves \/ SendRejects)

(***************************************************************************)
(* handleSubmit on a filled form: the page with a wallet connected, the    *)
(* contract created and the two fields and the year already entered        *)
(***************************************************************************)
EnteredFields == {"", "abc", "7", "2.6", "0.006", "12.345"}
EnteredYears == {CurrentYear, MinYear}

FilledInit ==
    /\ version \in {1, 2}
    /\ abiHasEvent = TRUE
    /\ contract = TRUE
    /\ userAddress = WalletA
    /\ selectedReportingYear \in EnteredYears
    /\ formData \in [current : EnteredFields, prior : EnteredFields]
    /\ submitting = FALSE
    /\ submissionStatus = NoStatus
    /\ hsPc = "idle"
    /\ hsUser = NoAddress
    /\ txPayloads = <<>>
    /\ hsI = 0
    /\ sent = <<>>
    /\ waits = <<>>
    /\ submissions = 0
    /\ InvestorIdle

FilledNext ==
    \/ HandleSubmit
    \/ SendResolves
    \/ SendRejects
    \/ WaitSettled
    \/ PageDelivers
    \/ PageWatcherFails
    \/ Tick
    \/ PageTimerFires

FilledSpec == FilledInit /\ [][FilledNext]_vars

(***************************************************************************)
(* waitForMatchingEvent on its own: called once with arbitrary arguments   *)
(***************************************************************************)
HarnessYear == CurrentYear

WaitInit ==
    /\ version \in {1, 2}
    /\ abiHasEvent \in BOOLEAN
    /\ contract \in (IF version = 1 THEN {TRUE} ELSE BOOLEAN)
    /\ userAddress = NoAddress
    /\ selectedReportingYear = CurrentYear
    /\ formData = InitialFormData
    /\ submitting = FALSE
    /\ submissionStatus = NoStatus
    /\ hsPc = "idle"
    /\ hsUser = NoAddress
    /\ txPayloads = <<>>
    /\ hsI = 0
    /\ sent = <<>>
    /\ waits = <<>>
    /\ submissions = 0
    /\ InvestorIdle

HarnessOwners == {WalletA, SwapCase(WalletA)}
HarnessCids == {CidX, toLowerCase(CidX)}

\* A caller invokes waitForMatchingEvent
CallWait ==
    /\ waits = <<>>
    /\ \E owner \in HarnessOwners \cup (IF version = 1 THEN {NoAddress} ELSE {}),
          v \in {150}, cid \in HarnessCids :
          waits' = <<waitForMatchingEvent(version, contract, abiHasEvent, 0,
                        Expected(owner, GhgKpiTypeId, HarnessYear, v, cid),
                        DefaultTimeoutMs)>>
    /\ UNCHANGED <<version, abiHasEvent, contract, pageVars>>

HarnessDelivers == \E c \in DOMAIN waits : WatcherDelivers(c, TRUE)
HarnessFails == \E c \in DOMAIN waits : WatcherFails(c)
HarnessTimerFires == \E c \in DOMAIN waits : TimerFires(c)

WaitNext ==
    \/ CallWait
    \/ HarnessDelivers
    \/ HarnessFails
    \/ Tick
    \/ HarnessTimerFires

WaitSpec == WaitInit /\ [][WaitNext]_vars

(***************************************************************************)
(* The investor page: ForInvestors and KpiHistoryGraph                     *)
(*                                                                         *)
(* The address input is held as the parts of its text between the commas.  *)
(* An address is the short string the user typed.                          *)
(***************************************************************************)
HistoryYears == 10                        \* startYear = currentYear - 10
InvestorKpiId == 1                        \* kpiIdentifiers...kpiId

\* The texts of the address input the model tries (typed, or taken from the
\* company-address parameter of the URL): two addresses (as the default
\* text), an address listed twice, an address with blanks beside an invalid
\* part, an invalid part alone, the empty text, one address
AddressInputs ==
    {<<"0xA", "0xB">>, <<"0xA", "0xA">>, <<" 0xA ", "xyz">>, <<"xyz">>, <<"">>,
     <<"0xB">>}

\* ethers.utils.isAddress on the inputs of the model
isAddress(str) == str \in {"0xA", "0xB"}

\* companyAddressInput.split(',').map(addr => addr.trim())
\*     .filter(addr => addr.length > 0)
inputParts(input) ==
    SelectSeq([i \in DOMAIN input |-> trim(input[i])], LAMBDA a : a # "")

\* Faulty variant: nothing is filtered out of the valid list
validPartsAll(input) == inputParts(input)

\* const valid = inputParts.filter(addr => ethers.utils.isAddress(addr))
validParts(input) == SelectSeq(inputParts(input), isAddress)

\* const invalid = inputParts.filter(addr => !ethers.utils.isAddress(addr))
invalidParts(input) == SelectSeq(inputParts(input), LAMBDA a : ~isAddress(a))

\* Faulty variant: the range leaves out its first year
yearsToQueryShort(currentYear) ==
    [i \in 1..HistoryYears |-> (currentYear - HistoryYears) + i]

\* Array.from({length: currentYear - startYear + 1}, (_, i) => startYear + i)
yearsToQuery(currentYear) ==
    [i \in 1..(currentYear - (currentYear - HistoryYears) + 1) |->
        (currentYear - HistoryYears) + (i - 1)]

\* readContract({contract, method, params}): a read-only call
readContract(method, params) ==
    [kind |-> "read", method |-> method, params |-> params]

\* allReadPromises: the reads pushed by companyAddresses.forEach(address =>
\* yearsToQuery.forEach(year => ...)), in the order of the pushes
allReads(addresses, kpiId, currentYear) ==
    LET years == yearsToQuery(currentYear)
        n == Len(years)
    IN  [k \in 1..(Len(addresses) * n) |->
            readContract("getLatestKpiVersion",
                         <<addresses[((k - 1) \div n) + 1], kpiId,
                           years[((k - 1) % n) + 1]>>)]

\* What the registry answers
ZeroStruct == [value |-> 0, submissionTimestamp |-> 0, metadataCid |-> "0x00"]
Answer(data) == [ok |-> TRUE, message |-> "", data |-> data]
Revert(message) == [ok |-> FALSE, message |-> message, data |-> ZeroStruct]
ChainScenarios == {"empty", "reverts", "rpcError", "data", "mixed"}

\* getLatestKpiVersion(address, kpiId, year) of the contract in scenario ch
getLatestKpiVersion(ch, address, kpiId, year) ==
    CASE ch = "reverts" -> Revert("No versions found for this KPI")
      [] ch = "rpcError" -> Revert("rpc error")
      [] ch = "data" /\ address = "0xA" /\ year \in {CurrentYear - 3, CurrentYear - 1}
            -> Answer([value |-> 1235, submissionTimestamp |-> 1700,
                       metadataCid |-> "0x00"])
      [] ch = "data" /\ address = "0xB" /\ year = CurrentYear - HistoryYears
            -> Answer([value |-> 0, submissionTimestamp |-> 1700,
                       metadataCid |-> "0x00"])
      [] ch = "mixed" /\ address = "0xA" /\ year = CurrentYear - 3
            -> Answer([value |-> 1235, submissionTimestamp |-> 1700,
                       metadataCid |-> "0x00"])
      [] ch = "mixed" /\ address = "0xA" /\ year = CurrentYear - 1
            -> Revert("rpc error")
      [] ch = "mixed" /\ address = "0xB" /\ year = CurrentYear - 3
            -> Revert("No versions found for this KPI")
      [] ch = "mixed" /\ address = "0xB" /\ year = CurrentYear - 2
            -> Answer([value |-> 40, submissionTimestamp |-> 1800,
                       metadataCid |-> "0x00"])
      [] OTHER -> Answer(ZeroStruct)

\* Faulty variant: the all-zero struct is taken for a data point
readOutcomeKeepsZero(ch, read) ==
    LET r == getLatestKpiVersion(ch, read.params[1], read.params[2], read.params[3])
    IN  IF ~r.ok THEN None
        ELSE [shape |-> "point", companyAddress |-> read.params[1],
              year |-> read.params[3], value |-> r.data.value,
              submissionTimestamp |-> r.data.submissionTimestamp,
              metadataCid |-> r.data.metadataCid]

\* The value the promise of one read is fulfilled with after .then().catch():
\* the data point, or null
readOutcome(ch, read) ==
    LET r == getLatestKpiVersion(ch, read.params[1], read.params[2], read.params[3])
    IN  IF ~r.ok THEN None
        ELSE IF r.data = ZeroStruct THEN None
        ELSE [shape |-> "point", companyAddress |-> read.params[1],
              year |-> read.params[3], value |-> r.data.value,
              submissionTimestamp |-> r.data.submissionTimestamp,
              metadataCid |-> r.data.metadataCid]

MinOf(S) == CHOOSE x \in S : \A y \in S : x <= y
MaxOf(S) == CHOOSE x \in S : \A y \in S : x >= y

\* Faulty variant: the range is widened by a year without the limits
finalDataUnclamped(results, currentYear) ==
    LET startYear == currentYear - HistoryYears
        points == {results[k] : k \in {j \in DOMAIN results : results[j] # None}}
        years == {p.year : p \in points}
        minDataYear == IF points = {} THEN currentYear
                       ELSE MinOf(years \cup {currentYear}) - 1
        maxDataYear == IF points = {} THEN currentYear
                       ELSE MaxOf(years \cup {startYear}) + 1
        row(y) == [year |-> y,
                   cells |-> {<<p.companyAddress, p.value, p.submissionTimestamp,
                                p.metadataCid>> : p \in {q \in points : q.year = y}}]
    IN  [i \in 1..(maxDataYear - minDataYear + 1) |-> row(minDataYear + (i - 1))]

\* finalData as computed from allSettledResults: minDataYear starts at
\* currentYear and maxDataYear at startYear, each data point moves them, and
\* with a data point the range is widened by a year within the limits
finalData(results, currentYear) ==
    LET startYear == currentYear - HistoryYears
        points == {results[k] : k \in {j \in DOMAIN results : results[j] # None}}
        years == {p.year : p \in points}
        minDataYear == IF points = {} THEN currentYear
                       ELSE MaxOf({startYear, MinOf(years \cup {currentYear}) - 1})
        maxDataYear == IF points = {} THEN currentYear
                       ELSE MinOf({currentYear, MaxOf(years \cup {startYear}) + 1})
        row(y) == [year |-> y,
                   cells |-> {<<p.companyAddress, p.value, p.submissionTimestamp,
                                p.metadataCid>> : p \in {q \in points : q.year = y}}]
    IN  [i \in 1..(maxDataYear - minDataYear + 1) |-> row(minDataYear + (i - 1))]

\* The state of a KpiHistoryGraph that is not mounted or was just mounted
GraphInitial ==
    /\ historyData' = <<>>
    /\ loadingHistory' = TRUE
    /\ historyError' = ""

\* The effects after the first render: the input is partitioned and
\* isClient is set; with a valid address the graph is mounted
MountEffects ==
    /\ ~isClient
    /\ isClient' = TRUE
    /\ companyAddresses' = validParts(companyAddressInput)
    /\ invalidAddresses' = invalidParts(companyAddressInput)
    /\ graphDirty' = (validParts(companyAddressInput) # <<>>)
    /\ UNCHANGED <<chain, companyAddressInput, fetches, historyData, loadingHistory,
                   historyError, companyVars>>

\* onChange of the address input, and the effect that partitions the input.
\* Without a valid address the graph is unmounted: its state is gone and the
\* fetches it started no longer reach a mounted component.
AddressInputChange ==
    /\ isClient
    /\ ~graphDirty
    /\ Len(fetches) < MaxFetches
    /\ \E input \in AddressInputs :
          /\ input # companyAddressInput
          /\ companyAddressInput' = input
          /\ companyAddresses' = validParts(input)
          /\ invalidAddresses' = invalidParts(input)
          /\ graphDirty' = (validParts(input) # <<>>)
          /\ IF validParts(input) = <<>>
             THEN /\ fetches' = [f \in DOMAIN fetches |-> [fetches[f] EXCEPT !.live = FALSE]]
                  /\ GraphInitial
             ELSE UNCHANGED <<fetches, historyData, loadingHistory, historyError>>
    /\ UNCHANGED <<chain, isClient, companyVars>>

\* The effect of KpiHistoryGraph on [companyAddresses, kpi.kpiId]: the
\* synchronous part of fetchHistoricalData, up to await Promise.allSettled
GraphEffect ==
    /\ graphDirty
    /\ graphDirty' = FALSE
    /\ IF \E i \in DOMAIN companyAddresses : isAddress(companyAddresses[i])
       THEN /\ loadingHistory' = TRUE
            /\ historyError' = ""
            /\ fetches' = Append(fetches,
                              [addresses |-> companyAddresses,
                               reads |-> allReads(companyAddresses, InvestorKpiId,
                                                  CurrentYear),
                               live |-> TRUE])
            /\ UNCHANGED historyData
       ELSE /\ historyData' = <<>>
            /\ loadingHistory' = FALSE
            /\ UNCHANGED <<fetches, historyError>>
    /\ UNCHANGED <<chain, companyAddressInput, companyAddresses, invalidAddresses,
                   isClient, companyVars>>

\* Promise.allSettled of a fetch is fulfilled: the rest of fetchHistoricalData
FetchSettles ==
    \E f \in DOMAIN fetches :
        LET fetch == fetches[f]
            results == [k \in DOMAIN fetch.reads |-> readOutcome(chain, fetch.reads[k])]
        IN  /\ fetches' = [i \in 1..(Len(fetches) - 1) |->
                              IF i < f THEN fetches[i] ELSE fetches[i + 1]]
            /\ IF fetch.live
               THEN /\ historyData' = finalData(results, CurrentYear)
                    /\ loadingHistory' = FALSE
               ELSE UNCHANGED <<historyData, loadingHistory>>
            /\ UNCHANGED <<chain, companyAddressInput, companyAddresses,
                           invalidAddresses, isClient, graphDirty, historyError,
                           companyVars>>

\* The investor page after its first render; the company page is not open
InvestorInit ==
    /\ version = 1
    /\ abiHasEvent = TRUE
    /\ contract = TRUE
    /\ userAddress = NoAddress
    /\ selectedReportingYear = CurrentYear
    /\ formData = InitialFormData
    /\ submitting = FALSE
    /\ submissionStatus = NoStatus
    /\ hsPc = "idle"
    /\ hsUser = NoAddress
    /\ txPayloads = <<>>
    /\ hsI = 0
    /\ sent = <<>>
    /\ waits = <<>>
    /\ submissions = 0
    /\ chain \in ChainScenarios
    /\ companyAddressInput \in AddressInputs
    /\ companyAddresses = <<>>
    /\ invalidAddresses = <<>>
    /\ isClient = FALSE
    /\ graphDirty = FALSE
    /\ fetches = <<>>
    /\ historyData = <<>>
    /\ loadingHistory = TRUE
    /\ historyError = ""

InvestorNext ==
    \/ MountEffects
    \/ AddressInputChange
    \/ GraphEffect
    \/ FetchSettles

InvestorSpec == InvestorInit /\ [][InvestorNext]_vars

(***************************************************************************)
(* Properties of waitForMatchingEvent                                      *)
(***************************************************************************)

\* C1: the promise resolves only with a log that denotes the expected tuple
\* in all five fields (owner, kpiTypeId, reportingYear, value, metadataCid);
\* a log that differs in one of them never resolves it.
C1_ResolvesOnlyOnFullMatch ==
    \A c \in DOMAIN waits :
        waits[c].outcome = "resolved" => SameTuple(waits[c].result, waits[c].expected)

\* A call resolved by the second log of its second batch: every log before
\* it differed from the expected tuple
C1_Witness ==
    \E c \in DOMAIN waits :
        /\ waits[c].outcome = "resolved"
        /\ waits[c].batches = 2
        /\ waits[c].lastMatchPos = 2
        /\ waits[c].result = waits[c].firstMatch

\* C2: the promise resolves with the first delivered log that matches:
\* while no matching log was delivered it is not resolved, the resolved value
\* is the earliest delivered matching log, a matching log delivered to a
\* pending promise resolves it, and the loop stops at the match.
C2_FirstMatchInDeliveryOrder ==
    \A c \in DOMAIN waits :
        /\ waits[c].firstMatch = None => waits[c].outcome # "resolved"
        /\ waits[c].outcome = "resolved" => waits[c].result = waits[c].firstMatch
        /\ (waits[c].firstMatch # None /\ waits[c].firstMatchPending)
              => (waits[c].outcome = "resolved" /\ waits[c].result = waits[c].firstMatch)
        /\ waits[c].lastMatchPos > 0 => waits[c].lastExamined = waits[c].lastMatchPos
        /\ waits[c].lastMatchPos = 0 => waits[c].lastExamined = waits[c].lastLen

\* A call resolved by the first log of a batch of two that came after a
\* batch without a match
C2_Witness ==
    \E c \in DOMAIN waits :
        /\ waits[c].outcome = "resolved"
        /\ waits[c].batches = 2
        /\ waits[c].firstMatchPending
        /\ waits[c].lastMatchPos = 1
        /\ waits[c].lastLen = 2
        /\ waits[c].lastExamined = 1

\* C3 as stated: a watch that ended without a matching log ended with the
\* timeout Error.
C3_Original ==
    \A c \in DOMAIN waits :
        (waits[c].watching /\ waits[c].outcome # "pending" /\ waits[c].firstMatch = None)
            => (waits[c].outcome = "rejected" /\ waits[c].result = Error(TimeoutMessage))

\* C3, amended: a watch that ended without a matching log and without an
\* error of the subscription ended by the timer with the timeout Error; the
\* timer runs for the default window of 90000 ms, never fires before the
\* window is over, and when it fires the promise is rejected, never resolved.
C3_TimeoutRejects ==
    \A c \in DOMAIN waits :
        /\ waits[c].timeoutMs = DefaultTimeoutMs
        /\ (waits[c].watching /\ waits[c].outcome # "pending"
               /\ waits[c].firstMatch = None /\ ~waits[c].sawError)
              => waits[c].timerFired
        /\ waits[c].timerFired
              => /\ waits[c].outcome = "rejected"
                 /\ waits[c].result = Error(TimeoutMessage)
                 /\ waits[c].elapsed >= DefaultTimeoutMs

\* A call that timed out although logs were delivered: none of them matched
C3_Witness ==
    \E c \in DOMAIN waits :
        /\ waits[c].timerFired
        /\ waits[c].batches > 0
        /\ waits[c].firstMatch = None
        /\ ~waits[c].sawError

\* C4: once the promise of a started watch is settled (match, onError or
\* timeout) unwatch has been called and the subscription is not active.
C4_SubscriptionDeregistered ==
    \A c \in DOMAIN waits :
        (waits[c].watching /\ waits[c].outcome # "pending")
            => (waits[c].unwatchCalls >= 1 /\ ~waits[c].subActive)

\* One call ended by a match, the next by the timer or by onError
C4_Witness ==
    \E c, d \in DOMAIN waits :
        /\ waits[c].outcome = "resolved"
        /\ waits[d].outcome = "rejected"
        /\ waits[d].watching
        /\ waits[d].unwatchCalls >= 1

C6_CaseInsensitive ==
    \A c \in DOMAIN waits :
        /\ waits[c].firstMatch # None =>
              /\ \A lo \in Casings(waits[c].firstMatch.kpiOwner),
                    lc \in Casings(waits[c].firstMatch.metadataCid),
                    eo \in Casings(waits[c].expected.owner),
                    ec \in Casings(waits[c].expected.metadataCid) :
                    allMatch(version,
                             [waits[c].firstMatch EXCEPT !.kpiOwner = lo, !.metadataCid = lc],
                             [waits[c].expected EXCEPT !.owner = eo, !.metadataCid = ec])
              /\ waits[c].firstMatchPending => waits[c].outcome = "resolved"
        /\ (waits[c].watching /\ waits[c].batches = 0 /\ waits[c].elapsed = 0
               /\ waits[c].outcome = "pending") =>
              \A l \in LogUniverse(version, waits[c].expected, TRUE) :
                  \A lo \in Casings(l.kpiOwner), lc \in Casings(l.metadataCid),
                     eo \in Casings(waits[c].expected.owner),
                     ec \in Casings(waits[c].expected.metadataCid) :
                      allMatch(version, [l EXCEPT !.kpiOwner = lo, !.metadataCid = lc],
                               [waits[c].expected EXCEPT !.owner = eo, !.metadataCid = ec])
                          = allMatch(version, l, waits[c].expected)

\* A call resolved by a log whose owner and metadataCid are written in
\* another case than the expected ones
C6_Witness ==
    \E c \in DOMAIN waits :
        /\ waits[c].outcome = "resolved"
        /\ waits[c].result.metadataCid # waits[c].expected.metadataCid
        /\ waits[c].result.kpiOwner
              \notin {waits[c].expected.owner,
                      hexZeroPad(waits[c].expected.owner, TopicDigits),
                      hexZeroPad(toLowerCase(waits[c].expected.owner), TopicDigits)}

(***************************************************************************)
(* Properties of the send loop                                             *)
(***************************************************************************)

\* C7: waitForMatchingEvent is called for a payload only after sendTransaction
\* of that payload resolved: every call belongs to a transaction of the run
\* whose send resolved, a transaction whose send is pending or rejected has
\* had no call, and so no subscription and no timer.
C7_WaitOnlyAfterSuccessfulSend ==
    /\ \A s \in DOMAIN sent : sent[s].waited <=> sent[s].status = "resolved"
    /\ \A c \in DOMAIN waits :
          /\ waits[c].payload \in DOMAIN sent
          /\ sent[waits[c].payload].index = waits[c].payload
          /\ sent[waits[c].payload].status = "resolved"
          /\ sent[waits[c].payload].prepared = txPayloads[waits[c].payload].prepared
    /\ Len(waits) <= Cardinality({s \in DOMAIN sent : sent[s].status = "resolved"})

\* The first payload was sent and awaited, the send of the second rejected:
\* the run ended without a call for the second payload
C7_Witness ==
    /\ Len(sent) = 2
    /\ sent[1].status = "resolved" /\ sent[1].waited
    /\ sent[2].status = "rejected" /\ ~sent[2].waited
    /\ waits = <<>>

\* C8: for every payload the tuple the wait expects is the tuple submitted:
\* kpiTypeId, reportingYear, value and metadataCid are the parameters of the
\* prepared submitKpiVersion call of the payload, and the expected owner is
\* the wallet address connected when the wait is called.
C8_ExpectedTupleIsSubmitted ==
    \A c \in DOMAIN waits :
        LET tx == sent[waits[c].payload]
            exp == waits[c].expected
        IN  /\ tx.prepared.method = "submitKpiVersion"
            /\ <<exp.kpiTypeId, exp.reportingYear, exp.value, exp.metadataCid>>
                  = tx.prepared.params
            /\ exp.owner = tx.connected

\* C9: every call of waitForMatchingEvent is settled in the end, and a
\* running handleSubmit returns in the end.
C9_EveryWaitTerminates ==
    /\ \A c \in 1..2 :
          (c \in DOMAIN waits /\ waits[c].outcome = "pending")
              ~> (c \notin DOMAIN waits \/ waits[c].outcome # "pending")
    /\ (hsPc # "idle") ~> (hsPc = "idle")

\* The handler waits for its second payload whose call has been ended by
\* the timer
C9_Witness ==
    /\ hsPc = "waiting"
    /\ Len(waits) = 2
    /\ CurrentWait.timerFired
    /\ CurrentWait.outcome = "rejected"

(***************************************************************************)
(* Properties of the investor page                                         *)
(***************************************************************************)

\* C10 as stated: one fetch issues exactly one getLatestKpiVersion read for
\* every pair (address, year), address in companyAddresses and year in
\* [currentYear - 10, currentYear].
C10_Original ==
    \A f \in DOMAIN fetches :
        \A i \in DOMAIN fetches[f].addresses,
           y \in (CurrentYear - HistoryYears)..CurrentYear :
            Cardinality({k \in DOMAIN fetches[f].reads :
                            fetches[f].reads[k].params
                                = <<fetches[f].addresses[i], InvestorKpiId, y>>}) = 1

\* C10, amended: one fetch issues only getLatestKpiVersion reads, all with
\* the same kpiId: exactly one for every entry of companyAddresses and every
\* year in [currentYear - 10, currentYear] (11 per entry, so an address that
\* is listed n times is read n times for each year), and the page never
\* sends a transaction.
C10_ReadsPerEntryAndYear ==
    /\ sent = <<>>
    /\ \A f \in DOMAIN fetches :
          LET reads == fetches[f].reads
              addresses == fetches[f].addresses
              years == (CurrentYear - HistoryYears)..CurrentYear
          IN  /\ Cardinality(years) = 11
              /\ Len(reads) = 11 * Len(addresses)
              /\ \A k \in DOMAIN reads :
                    /\ reads[k].kind = "read"
                    /\ reads[k].method = "getLatestKpiVersion"
                    /\ reads[k].params[2] = InvestorKpiId
                    /\ reads[k].params[3] \in years
                    /\ \E i \in DOMAIN addresses : reads[k].params[1] = addresses[i]
              /\ \A i \in DOMAIN addresses, y \in years :
                    Cardinality({k \in DOMAIN reads :
                                    reads[k].params = <<addresses[i], InvestorKpiId, y>>})
                        = Cardinality({j \in DOMAIN addresses :
                                          addresses[j] = addresses[i]})

\* A fetch in flight for an input that lists the same address twice
C10_Witness ==
    \E f \in DOMAIN fetches :
        /\ fetches[f].addresses = <<"0xA", "0xA">>
        /\ fetches[f].addresses = companyAddresses
        /\ Len(fetches[f].reads) = 22
        /\ fetches[f].live

(***************************************************************************)
(* C11: the transactions of one submission are strictly sequential.  The   *)
(* handler sends transaction i + 1 only after transaction i was sent and   *)
(* its event was confirmed, and at no time are two transactions of a       *)
(* submission in flight.                                                   *)
(***************************************************************************)
C11_StrictlySequential ==
    /\ [](Cardinality({i \in DOMAIN sent : sent[i].status = "pending"}) <= 1)
    /\ [][(sent' # sent /\ sent' # <<>> /\ sent'[Len(sent')].status = "pending")
            => LET tx == sent'[Len(sent')]
               IN  /\ tx.index = Len(sent')
                   /\ \A i \in DOMAIN sent : sent[i].status # "pending"
                   /\ \A i \in 1..(tx.index - 1) :
                         /\ i \in DOMAIN sent
                         /\ sent[i].run = tx.run
                         /\ sent[i].index = i
                         /\ sent[i].status = "resolved"
                         /\ i \in DOMAIN waits
                         /\ waits[i].payload = i
                         /\ waits[i].outcome = "resolved"]_vars

\* The second transaction of a submission is in flight; the first was
\* confirmed
C11_Witness ==
    /\ Len(sent) = 2
    /\ sent[2].index = 2
    /\ sent[2].status = "pending"
    /\ sent[1].status = "resolved"
    /\ 1 \in DOMAIN waits
    /\ waits[1].outcome = "resolved"

(***************************************************************************)
(* C12: when the send or the confirmation of transaction i fails, the      *)
(* submission stops: no transaction with a greater index is sent, the form *)
(* data is left as it was before the submission, and the final status      *)
(* starts with "Error:".                                                   *)
(***************************************************************************)
C12_FailureStopsSubmission ==
    /\ [][(/\ hsPc # "idle"
           /\ \/ hsPc = "sending" /\ sent'[Len(sent')].status = "rejected"
              \/ hsPc = "waiting" /\ CurrentWait.outcome = "rejected"
                                  /\ waits' # waits)
            => /\ hsPc' = "idle"
               /\ formData' = formData
               /\ submissionStatus'.prefix = "Error: "
               /\ ~submitting'
               /\ Len(sent') = hsI
               /\ \A i \in DOMAIN sent' : sent'[i].index <= hsI]_vars
    \* the form is not edited while the handler runs
    /\ [][(hsPc # "idle" /\ hsPc' # "idle") => formData' = formData]_vars
    \* once the handler has returned, only a new submission sends
    /\ [][(hsPc = "idle" /\ sent' # sent)
            => /\ Len(sent') = 1
               /\ sent'[1].index = 1
               /\ \A i \in DOMAIN sent : sent[i].run < sent'[1].run]_vars

\* A submission of two payloads failed at the confirmation of the first:
\* the second was never sent and both fields still hold what was entered
C12_Witness ==
    /\ hsPc = "idle"
    /\ submissionStatus.prefix = "Error: "
    /\ Len(sent) = 1
    /\ sent[1].status = "resolved"
    /\ sent[1].waited
    /\ formData.current = "12.345"
    /\ formData.prior = "12.345"

(***************************************************************************)
(* C13: the handler clears the form and sets the success status only after *)
(* every prepared transaction of the submission was sent and its event     *)
(* confirmed; after a successful submission both form fields are the empty *)
(* string.                                                                 *)
(***************************************************************************)
C13_SuccessOnlyAfterAllConfirmed ==
    [][(\/ hsPc # "idle" /\ formData' # formData
        \/ /\ submissionStatus' # submissionStatus
           /\ submissionStatus'.text \in {SuccessText(1), SuccessText(2)})
        => /\ txPayloads # <<>>
           /\ Len(sent) = Len(txPayloads)
           /\ Len(waits) = Len(txPayloads)
           /\ \A i \in DOMAIN txPayloads :
                 /\ sent[i].index = i
                 /\ sent[i].prepared = txPayloads[i].prepared
                 /\ sent[i].status = "resolved"
                 /\ waits[i].payload = i
                 /\ waits[i].outcome = "resolved"
           /\ submissionStatus'.text = SuccessText(version)
           /\ formData'.current = ""
           /\ formData'.prior = ""
           /\ hsPc' = "idle"]_vars

\* A submission of two payloads succeeded: both were sent and the form is
\* cleared
C13_Witness ==
    /\ hsPc = "idle"
    /\ submissionStatus.text = SuccessText(version)
    /\ Len(sent) = 2
    /\ \A i \in DOMAIN sent : sent[i].status = "resolved" /\ sent[i].waited
    /\ formData = InitialFormData

(***************************************************************************)
(* C14: handleSubmit refuses to start when no wallet address is connected, *)
(* the reporting year is below 1900 or above 2200, or (hook-based          *)
(* revision) the contract is not initialised: the status it sets starts    *)
(* with "Error:", no transaction is sent, no subscription is created,      *)
(* submitting is never set and the form data is unchanged.                 *)
(***************************************************************************)
C14_PreconditionRefuses ==
    [][(/\ hsPc = "idle"
        /\ \/ userAddress = NoAddress
           \/ selectedReportingYear < 1900
           \/ selectedReportingYear > 2200
           \/ version = 2 /\ ~contract)
        => /\ hsPc' = "idle"
           /\ sent' = sent
           /\ waits' = waits
           /\ submissions' = submissions
           /\ ~submitting'
           /\ submissionStatus' # submissionStatus
                 => /\ submissionStatus'.prefix = "Error: "
                    /\ formData' = formData]_vars

\* A click with a wallet connected, data entered and a year above 2200 was
\* refused
C14_Witness ==
    /\ userAddress # NoAddress
    /\ selectedReportingYear = 2201
    /\ formData.current = "12.345"
    /\ submissionStatus.prefix = "Error: "
    /\ submissionStatus.text \in {"Please enter a valid Reporting Year.",
                                  "Please enter a valid reporting year."}
    /\ sent = <<>>
    /\ waits = <<>>
    /\ ~submitting
    /\ hsPc = "idle"

C16_Original ==
    hsPc # "idle"
    => \A i \in DOMAIN sent :
          LET str == IF sent[i].prepared.params[2] = selectedReportingYear
                     THEN formData.current ELSE formData.prior
              x == parseFloat(str).milli
              v == sent[i].prepared.params[3]
          IN  /\ ~parseFloat(str).nan
              /\ 10 * v - 5 <= x
              /\ x <= 10 * v + 5

(***************************************************************************)
(* C16, amended: the value sent for a field is computed in the same way    *)
(* for the current-year and the prior-year value.  In the inline revision  *)
(* it is the entered number multiplied by 100 and rounded to the nearest   *)
(* integer; in the hook-based revision it is the entered number rounded to *)
(* the nearest integer, without the multiplication.                        *)
(***************************************************************************)
C16_ScaledOnlyInline ==
    hsPc # "idle"
    => \A i \in DOMAIN sent :
          LET str == IF sent[i].prepared.params[2] = selectedReportingYear
                     THEN formData.current ELSE formData.prior
              x == parseFloat(str).milli
              v == sent[i].prepared.params[3]
              unit == IF version = 1 THEN 10 ELSE 1000
          IN  /\ ~parseFloat(str).nan
              /\ 2 * unit * v - unit <= 2 * x
              /\ 2 * x <= 2 * unit * v + unit

\* The hook-based revision sent 3 for the entry 2.6 and 0 for the entry 0.006
C16_Witness ==
    /\ version = 2
    /\ hsPc = "sending"
    /\ formData.current = "2.6"
    /\ formData.prior = "0.006"
    /\ Len(sent) = 2
    /\ sent[1].prepared.params[3] = 3
    /\ sent[2].prepared.params[3] = 0

(***************************************************************************)
(* C17: a delivered log that cannot be decoded, or that lacks one of the   *)
(* five compared fields, is skipped: it neither resolves nor rejects the   *)
(* promise, the subscription stays active, and the remaining logs of the   *)
(* same batch are still examined.                                          *)
(***************************************************************************)
C17_MalformedLogSkipped ==
    \A c \in DOMAIN waits :
        LET w == waits[c]
        IN  \* the loop ends at the first match or at the end of the batch
            /\ w.batches > 0 =>
                  w.lastExamined = IF w.lastMatchPos > 0 THEN w.lastMatchPos
                                   ELSE w.lastLen
            \* skipped logs alone leave the call as it was
            /\ (w.lastSkipped /\ w.firstMatch = None /\ ~w.sawError
                   /\ ~w.timerFired) =>
                  /\ w.outcome = "pending"
                  /\ w.result = None
                  /\ w.subActive
                  /\ w.timerActive
                  /\ w.unwatchCalls = 0
            \* a batch has the effect of its well-formed logs
            /\ (w.watching /\ w.batches = 0 /\ w.elapsed = 0 /\ w.outcome = "pending") =>
                  \A events \in Batches(LogUniverse(version, w.expected, TRUE),
                                        MaxBatchLen) :
                      LET wellFormed(l) == /\ l.decodable
                                           /\ l.missing = {}
                                           /\ l.kpiOwner # NoAddress
                          rest == SelectSeq(events, wellFormed)
                          all == onEvents(version, w, events)
                          clean == onEvents(version, w, rest)
                      IN  /\ all.outcome = clean.outcome
                          /\ all.result = clean.result
                          /\ all.subActive = clean.subActive
                          /\ all.timerActive = clean.timerActive
                          /\ rest = <<>> => /\ all.outcome = "pending"
                                            /\ all.subActive
                                            /\ all.lastSkipped = (events # <<>>)
                                            /\ all.lastExamined = Len(events)

\* The first log of a batch was skipped as malformed and the second, which
\* matches, resolved the call
C17_Witness ==
    \E c \in DOMAIN waits :
        /\ waits[c].batches = 1
        /\ waits[c].lastLen = 2
        /\ waits[c].lastSkipped
        /\ waits[c].lastMatchPos = 2
        /\ waits[c].lastExamined = 2
        /\ waits[c].outcome = "resolved"
        /\ waits[c].result = waits[c].firstMatch

(***************************************************************************)
(* C18: when the subscription reports an error while the wait is pending,  *)
(* the promise rejects with that same error after the timer was cleared    *)
(* and the subscription deregistered; the wait does not run on until the   *)
(* timeout.                                                                *)
(***************************************************************************)
C18_SubscriptionErrorRejects ==
    \A c \in DOMAIN waits :
        LET w == waits[c]
        IN  \* a call that saw an error and was neither resolved nor timed
            \* out before it
            /\ (w.sawError /\ w.outcome # "resolved"
                   /\ w.result # Error(TimeoutMessage)) =>
                  /\ w.outcome = "rejected"
                  /\ w.result \in SubscriptionErrors
                  /\ ~w.timerActive
                  /\ ~w.timerFired
                  /\ ~w.subActive
                  /\ w.unwatchCalls >= 1
            \* onError on a pending call
            /\ (w.watching /\ w.outcome = "pending") =>
                  \A error \in SubscriptionErrors \cup {Error("connection lost")} :
                      LET r == onError(w, error)
                      IN  /\ r.outcome = "rejected"
                          /\ r.result = error
                          /\ ~r.timerActive
                          /\ ~r.subActive
                          /\ r.unwatchCalls = w.unwatchCalls + 1
                          /\ r.elapsed = w.elapsed

\* A call rejected with the error of the subscription before its window was
\* over, after a batch without a match
C18_Witness ==
    \E c \in DOMAIN waits :
        /\ waits[c].sawError
        /\ waits[c].batches = 1
        /\ waits[c].firstMatch = None
        /\ waits[c].outcome = "rejected"
        /\ waits[c].result = Error("rpc error")
        /\ waits[c].elapsed < waits[c].timeoutMs
        /\ ~waits[c].timerActive
        /\ ~waits[c].subActive

(***************************************************************************)
(* C19: the investor page partitions the address input: after splitting on *)
(* commas, trimming and dropping empty parts, every part is in exactly one *)
(* of companyAddresses (the valid addresses) and invalidAddresses, each    *)
(* list keeps the parts in input order, and the graph is shown only when   *)
(* companyAddresses is not empty.                                          *)
(***************************************************************************)
C19_InputPartitioned ==
    LET parts == inputParts(companyAddressInput)
        good == {i \in DOMAIN parts : parts[i] \in {"0xA", "0xB"}}
        bad == DOMAIN parts \ good
        nth(S, k) == CHOOSE i \in S : Cardinality({j \in S : j < i}) = k - 1
    IN  /\ isClient =>
              /\ Len(companyAddresses) = Cardinality(good)
              /\ Len(invalidAddresses) = Cardinality(bad)
              /\ \A k \in DOMAIN companyAddresses :
                    companyAddresses[k] = parts[nth(good, k)]
              /\ \A k \in DOMAIN invalidAddresses :
                    invalidAddresses[k] = parts[nth(bad, k)]
              /\ \A i \in DOMAIN parts :
                    /\ parts[i] # ""
                    /\ (\E k \in DOMAIN companyAddresses : companyAddresses[k] = parts[i])
                          # (\E k \in DOMAIN invalidAddresses :
                                  invalidAddresses[k] = parts[i])
        \* the graph is mounted only with a valid address
        /\ (\/ graphDirty
            \/ \E f \in DOMAIN fetches : fetches[f].live
            \/ historyData # <<>>
            \/ ~loadingHistory)
              => isClient /\ companyAddresses # <<>>

\* An input with a padded address and an invalid part: one entry in each
\* list, and the graph has loaded
C19_Witness ==
    /\ isClient
    /\ companyAddressInput = <<" 0xA ", "xyz">>
    /\ companyAddresses = <<"0xA">>
    /\ invalidAddresses = <<"xyz">>
    /\ ~loadingHistory

(***************************************************************************)
(* C20: a read that returns the all-zero struct, or that fails with any    *)
(* error, counts as "no data" for that (address, year) only: it produces   *)
(* no data point and never sets historyError, and the data points of the   *)
(* other reads are still put into historyData.                             *)
(***************************************************************************)
C20_NoDataIsLocal ==
    /\ [](historyError = "")
    /\ [][Len(fetches') < Len(fetches)
            => \E f \in DOMAIN fetches :
                  /\ fetches' = [i \in 1..(Len(fetches) - 1) |->
                                    IF i < f THEN fetches[i] ELSE fetches[i + 1]]
                  /\ historyError' = historyError
                  /\ fetches[f].live =>
                        LET reads == fetches[f].reads
                            answer(k) == getLatestKpiVersion(chain, reads[k].params[1],
                                             reads[k].params[2], reads[k].params[3])
                            noData(k) ==
                                \/ ~answer(k).ok
                                \/ /\ answer(k).data.value = 0
                                   /\ answer(k).data.submissionTimestamp = 0
                                   /\ answer(k).data.metadataCid = "0x00"
                        IN  /\ ~loadingHistory'
                            /\ \A k \in DOMAIN reads :
                                  IF noData(k)
                                  THEN \A r \in DOMAIN historyData' :
                                          historyData'[r].year = reads[k].params[3]
                                          => \A cell \in historyData'[r].cells :
                                                cell[1] # reads[k].params[1]
                                  ELSE \E r \in DOMAIN historyData' :
                                          /\ historyData'[r].year = reads[k].params[3]
                                          /\ <<reads[k].params[1], answer(k).data.value,
                                               answer(k).data.submissionTimestamp,
                                               answer(k).data.metadataCid>>
                                                \in historyData'[r].cells]_vars

\* Two reads failed and the others answered: the graph holds the two data
\* points, nothing for the years of the failed reads, and no error
C20_Witness ==
    /\ chain = "mixed"
    /\ ~loadingHistory
    /\ historyError = ""
    /\ \E r \in DOMAIN historyData :
          /\ historyData[r].year = CurrentYear - 3
          /\ historyData[r].cells = {<<"0xA", 1235, 1700, "0x00">>}
    /\ \E r \in DOMAIN historyData :
          /\ historyData[r].year = CurrentYear - 2
          /\ historyData[r].cells = {<<"0xB", 40, 1800, "0x00">>}
    /\ \E r \in DOMAIN historyData :
          /\ historyData[r].year = CurrentYear - 1
          /\ historyData[r].cells = {}

(***************************************************************************)
(* C21: after a fetch that found a data point, historyData holds exactly   *)
(* one entry per year, ascending and without gaps, from                    *)
(* max(startYear, minDataYear - 1) to min(currentYear, maxDataYear + 1)    *)
(* with startYear = currentYear - 10; every year with a data point is in   *)
(* this range; the entry of a year carries the value, submissionTimestamp  *)
(* and metadataCid of exactly the addresses that have data for that year;  *)
(* a fetch that found nothing yields the single entry {year: currentYear}. *)
(***************************************************************************)
C21_HistoryRange ==
    [][Len(fetches') < Len(fetches)
        => \E f \in DOMAIN fetches :
              /\ fetches' = [i \in 1..(Len(fetches) - 1) |->
                                IF i < f THEN fetches[i] ELSE fetches[i + 1]]
              /\ fetches[f].live =>
                    LET reads == fetches[f].reads
                        answer(k) == getLatestKpiVersion(chain, reads[k].params[1],
                                         reads[k].params[2], reads[k].params[3])
                        found == {k \in DOMAIN reads :
                                     /\ answer(k).ok
                                     /\ \/ answer(k).data.value # 0
                                        \/ answer(k).data.submissionTimestamp # 0
                                        \/ answer(k).data.metadataCid # "0x00"}
                        years == {reads[k].params[3] : k \in found}
                        cellsOf(y) == {<<reads[k].params[1], answer(k).data.value,
                                         answer(k).data.submissionTimestamp,
                                         answer(k).data.metadataCid>> :
                                          k \in {j \in found : reads[j].params[3] = y}}
                        lo == LET m == CHOOSE y \in years : \A z \in years : y <= z
                              IN  IF m - 1 < 2024 - 10 THEN 2024 - 10 ELSE m - 1
                        hi == LET m == CHOOSE y \in years : \A z \in years : y >= z
                              IN  IF m + 1 > 2024 THEN 2024 ELSE m + 1
                    IN  IF found = {}
                        THEN historyData' = <<[year |-> 2024, cells |-> {}]>>
                        ELSE /\ Len(historyData') = hi - lo + 1
                             /\ \A y \in years : lo <= y /\ y <= hi
                             /\ \A i \in DOMAIN historyData' :
                                   /\ historyData'[i].year = lo + (i - 1)
                                   /\ historyData'[i].cells = cellsOf(lo + (i - 1))]_vars

\* Data at the first and at the last but one year of the window: eleven
\* entries, from currentYear - 10 to currentYear, the last one without data
C21_Witness ==
    /\ chain = "data"
    /\ ~loadingHistory
    /\ Len(historyData) = 11
    /\ historyData[1].year = CurrentYear - 10
    /\ historyData[1].cells = {<<"0xB", 0, 1700, "0x00">>}
    /\ historyData[10].cells = {<<"0xA", 1235, 1700, "0x00">>}
    /\ historyData[11].year = CurrentYear
    /\ historyData[11].cells = {}

(***************************************************************************)
(* C22: submitting is true from the moment handleSubmit passed its         *)
(* precondition checks until it finishes, and false in every state where   *)
(* no handleSubmit run is in progress, on every path: success, no data     *)
(* entered, send failure, confirmation failure, timeout.                   *)
(***************************************************************************)
C22_SubmittingTracksRun ==
    /\ [](submitting <=> hsPc # "idle")
    /\ []((\/ \E i \in DOMAIN sent : sent[i].status = "pending"
           \/ \E c \in DOMAIN waits : waits[c].outcome = "pending") => submitting)
    \* a run starts from a page that is not submitting and whose
    \* preconditions hold
    /\ [][(~submitting /\ submitting')
            => /\ userAddress # NoAddress
               /\ selectedReportingYear >= 1900
               /\ selectedReportingYear <= 2200
               /\ version = 2 => contract
               /\ sent'[Len(sent')].status = "pending"]_vars
    \* a run ends by success or by an error, and then nothing is in flight
    /\ [][(submitting /\ ~submitting')
            => /\ \/ submissionStatus'.prefix = "Error: "
                  \/ submissionStatus'.text = SuccessText(version)
               /\ \A i \in DOMAIN sent' : sent'[i].status # "pending"
               /\ waits' = <<>>]_vars
    \* a click without data leaves the flag false
    /\ [][(~submitting /\ submissionStatus' # submissionStatus
              /\ submissionStatus'.prefix # "Error: ")
            => \/ submitting'
               \/ /\ buildPayloads(version, formData, selectedReportingYear) = <<>>
                  /\ hsPc' = "idle"]_vars

\* A run ended by the timeout of its first wait: the flag is false again
C22_Witness ==
    /\ ~submitting
    /\ hsPc = "idle"
    /\ Len(sent) = 1
    /\ sent[1].status = "resolved"
    /\ submissionStatus.prefix = "Error: "
    /\ submissionStatus.text \in {"Event confirmation timed out.", TimeoutMessage}

====
